---- MODULE Spec2Model ----
(***************************************************************************)
(* A model of docdown.py: the conversion of Word documents to Markdown.    *)
(*                                                                         *)
(*   get_heading_level   the heading heuristic               (SpecHeading) *)
(*   extract_images      the image extraction loop           (SpecExtract) *)
(*   convert_to_markdown the paragraph loop, the blank-line post-pass and  *)
(*                       the write of the Markdown file: on documents of   *)
(*                       several paragraphs (Spec) and on one paragraph of *)
(*                       any style and formatting (SpecParagraph)          *)
(*                                                                         *)
(* Python strings are TLA+ strings; an optional value (None or a value) is *)
(* the empty tuple or a one-element tuple.                                 *)
(***************************************************************************)
EXTENDS Integers, Sequences, FiniteSets, TLC

VARIABLES
    pc,                \* the position of the function being run
    paragraph,         \* the paragraph loop variable (docdown.py:179)
    paragraph_content, \* the content items of `paragraph' (docdown.py:181)
    heading_level,     \* docdown.py:222
    is_code,           \* docdown.py:234
    md_content,        \* the emitted lines (docdown.py:176)
    in_code_block,     \* docdown.py:177
    cleaned_content,   \* docdown.py:274
    md_file,           \* the lines written to the Markdown file (docdown.py:286)
    doc_paragraphs,    \* doc.paragraphs, the document's paragraphs (docdown.py:179)
    n_paragraphs,      \* how many paragraphs the loop has taken
    rels,              \* doc.part.rels.values() (docdown.py:89)
    rel_index,         \* how many relationships the loop has taken
    image_refs,        \* docdown.py:85
    file_image_count,  \* docdown.py:86
    image_files,       \* the image files on disk: <<sequence number, extension>>
    failed_images,     \* stats.failed_images (docdown.py:20)
    file_image_counts, \* stats.file_image_counts (docdown.py:21)
    total_images,      \* stats.total_images
    mode,              \* "file" when args.source is a file, else "directory"
    files,             \* the files os.walk finds, or the source file alone
    file_index,        \* how many of them the loop has taken
    total_files,       \* stats.total_files
    successful_files,  \* stats.successful_files
    failed_files,      \* stats.failed_files
    skipped_files,     \* docdown.py:314
    converted_files,   \* docdown.py:313
    md_files,          \* the Markdown files on disk, by path
    status             \* what main returned, None before

vars == <<pc, paragraph, paragraph_content, heading_level, is_code, md_content,
          in_code_block, cleaned_content, md_file, doc_paragraphs, n_paragraphs,
          rels, rel_index,
          image_refs, file_image_count, image_files, failed_images,
          file_image_counts, total_images, mode, files, file_index, total_files,
          successful_files, failed_files, skipped_files, converted_files, md_files,
          status>>

convert_vars == <<paragraph, paragraph_content, heading_level, is_code, md_content,
                  in_code_block, cleaned_content, md_file, doc_paragraphs,
                  n_paragraphs>>

extract_vars == <<rel_index, image_refs, file_image_count, image_files,
                  failed_images, file_image_counts, total_images>>

batch_vars == <<mode, files, file_index, total_files, successful_files, failed_files,
                skipped_files, converted_files, md_files, status>>

-----------------------------------------------------------------------------
(* Optional values *)

None == <<>>

Some(x) == <<x>>

-----------------------------------------------------------------------------
(* Python's str methods, on TLA+ strings *)

Char(s, i) == SubSeq(s, i, i)

\* str.isspace() of one character
IsSpace(c) == c \in {" ", "\t", "\n"}

StartsWith(s, prefix) ==
    /\ Len(s) >= Len(prefix)
    /\ SubSeq(s, 1, Len(prefix)) = prefix

RECURSIVE LStrip(_)
LStrip(s) ==
    IF Len(s) > 0 /\ IsSpace(Char(s, 1)) THEN LStrip(SubSeq(s, 2, Len(s))) ELSE s

RECURSIVE RStrip(_)
RStrip(s) ==
    IF Len(s) > 0 /\ IsSpace(Char(s, Len(s)))
    THEN RStrip(SubSeq(s, 1, Len(s) - 1))
    ELSE s

\* str.strip()
Strip(s) == RStrip(LStrip(s))

UpperCase == "ABCDEFGHIJKLMNOPQRSTUVWXYZ"

LowerCase == "abcdefghijklmnopqrstuvwxyz"

LowerChar(c) ==
    IF \E i \in 1..Len(UpperCase) : Char(UpperCase, i) = c
    THEN Char(LowerCase, CHOOSE i \in 1..Len(UpperCase) : Char(UpperCase, i) = c)
    ELSE c

\* str.lower()
RECURSIVE Lower(_)
Lower(s) ==
    IF Len(s) = 0 THEN "" ELSE LowerChar(Char(s, 1)) \o Lower(SubSeq(s, 2, Len(s)))

\* str.replace(old, new) for a one-character old
RECURSIVE Replace(_, _, _)
Replace(s, old, new) ==
    IF Len(s) = 0 THEN ""
    ELSE (IF Char(s, 1) = old THEN new ELSE Char(s, 1))
             \o Replace(SubSeq(s, 2, Len(s)), old, new)

\* The first whitespace-free word of s (s does not start with whitespace)
RECURSIVE Word(_)
Word(s) ==
    IF Len(s) = 0 \/ IsSpace(Char(s, 1)) THEN ""
    ELSE Char(s, 1) \o Word(SubSeq(s, 2, Len(s)))

\* str.split(): the words of s, split at runs of whitespace
RECURSIVE Split(_)
Split(s) ==
    LET t == LStrip(s) IN
    IF Len(t) = 0 THEN <<>>
    ELSE <<Word(t)>> \o Split(SubSeq(t, Len(Word(t)) + 1, Len(t)))

Digits == "0123456789"

IsDigit(c) == \E i \in 1..Len(Digits) : Char(Digits, i) = c

DigitValue(c) == (CHOOSE i \in 1..Len(Digits) : Char(Digits, i) = c) - 1

RECURSIVE AllDigits(_)
AllDigits(s) ==
    Len(s) = 0 \/ (IsDigit(Char(s, 1)) /\ AllDigits(SubSeq(s, 2, Len(s))))

RECURSIVE DigitsValue(_)
DigitsValue(s) ==
    IF Len(s) = 0 THEN 0
    ELSE 10 * DigitsValue(SubSeq(s, 1, Len(s) - 1)) + DigitValue(Char(s, Len(s)))

\* The outcome of a call: a returned value, or an exception
Return(v) == [raised |-> FALSE, value |-> v]

Raise == [raised |-> TRUE, value |-> 0]

\* int(s): an optional sign and decimal digits, ValueError otherwise
int(s) ==
    LET signed == Len(s) > 0 /\ Char(s, 1) \in {"+", "-"}
        digits == IF signed THEN SubSeq(s, 2, Len(s)) ELSE s
    IN  IF Len(digits) = 0 \/ ~AllDigits(digits) THEN Raise
        ELSE IF signed /\ Char(s, 1) = "-" THEN Return(0 - DigitsValue(digits))
        ELSE Return(DigitsValue(digits))

Last(seq) == seq[Len(seq)]

\* The sequences over S of length at most n
SeqsUpTo(S, n) == UNION {[1..k -> S] : k \in 0..n}

-----------------------------------------------------------------------------
(* get_heading_level *)

\* The first run's rPr that is not None, or None (docdown.py:55-59)
RECURSIVE FirstRunProps(_)
FirstRunProps(runs) ==
    IF Len(runs) = 0 THEN None
    ELSE IF Head(runs).rPr # None THEN Head(runs).rPr
    ELSE FirstRunProps(Tail(runs))

\* The font size rule (docdown.py:64-71): the level returned, or None when
\* the rule returns nothing and control falls to the bold check
SizeRule(props) ==
    IF props.sz = None THEN Return(None)
    ELSE LET val == int(props.sz[1]) IN
         IF val.raised THEN Raise
         ELSE LET size == val.value \div 2 IN
              IF size >= 20 THEN Return(Some(1))
              ELSE IF size >= 16 THEN Return(Some(2))
              ELSE IF size >= 14 THEN Return(Some(3))
              ELSE Return(None)

\* The rules on the first explicit run properties (docdown.py:61-78)
FormatRule(props) ==
    LET by_size == SizeRule(props) IN
    IF by_size.raised THEN Raise
    ELSE IF by_size.value # None THEN Return(by_size.value[1])
    ELSE IF props.b THEN Return(3)
    ELSE Return(0)

\* return int(style_name.split()[-1]) (docdown.py:48)
StyleRule(style_name) == int(Last(Split(style_name)))

\* The try block of get_heading_level (docdown.py:46-78)
HeadingLevelTry(p) ==
    IF p.style = None THEN Raise
    ELSE LET style_name == p.style[1] IN
         IF StartsWith(style_name, "Heading") THEN StyleRule(style_name)
         ELSE IF style_name = "Title" THEN Return(1)
         ELSE LET run_props == FirstRunProps(p.runs) IN
              IF run_props # None THEN FormatRule(run_props[1])
              ELSE Return(0)

\* get_heading_level: any exception gives 0 (docdown.py:79-81)
get_heading_level(p) ==
    LET r == HeadingLevelTry(p) IN
    IF r.raised THEN 0 ELSE r.value

-----------------------------------------------------------------------------
(* convert_to_markdown: the content items of a paragraph (docdown.py:181-217) *)

\* alt_text (docdown.py:200-201); descr is the docPr's descr attribute
AltText(drawing) ==
    LET alt_text == IF drawing.descr = None THEN "Image" ELSE drawing.descr[1]
    IN  Strip(Replace(alt_text, "\n", " "))

\* The image items of a run's w:drawing elements, in order (docdown.py:188-208)
RECURSIVE DrawingItems(_, _)
DrawingItems(drawings, refs) ==
    IF Len(drawings) = 0 THEN <<>>
    ELSE LET d == Head(drawings)
             here == IF d.embed # None /\ d.embed[1] \in DOMAIN refs
                     THEN <<[type |-> "image",
                             content |-> "![" \o AltText(d) \o "](" \o refs[d.embed[1]] \o ")"]>>
                     ELSE <<>>
         IN  here \o DrawingItems(Tail(drawings), refs)

\* The items one run appends to paragraph_content (docdown.py:183-217)
RunItemsTextKept(run, refs) ==
    LET images == DrawingItems(run.drawings, refs)
    IN  IF Strip(run.text) # ""
        THEN images \o <<[type |-> "text", content |-> run.text]>>
        ELSE images

RunItems(run, refs) ==
    LET images == DrawingItems(run.drawings, refs)
        has_image == images # <<>>
    IN  IF Strip(run.text) # "" /\ ~has_image
        THEN images \o <<[type |-> "text", content |-> run.text]>>
        ELSE images

\* paragraph_content after the run loop (docdown.py:181-217)
RECURSIVE ParagraphContent(_, _)
ParagraphContent(runs, refs) ==
    IF Len(runs) = 0 THEN <<>>
    ELSE RunItems(Head(runs), refs) \o ParagraphContent(Tail(runs), refs)

\* ''.join(item['content'] for item in items)
RECURSIVE JoinContent(_)
JoinContent(items) ==
    IF Len(items) = 0 THEN "" ELSE Head(items).content \o JoinContent(Tail(items))

\* [item for item in items if item['type'] == 'text']
RECURSIVE TextItems(_)
TextItems(items) ==
    IF Len(items) = 0 THEN <<>>
    ELSE (IF Head(items).type = "text" THEN <<Head(items)>> ELSE <<>>)
             \o TextItems(Tail(items))

\* '#' * n
RECURSIVE Hashes(_)
Hashes(n) == IF n <= 0 THEN "" ELSE "#" \o Hashes(n - 1)

-----------------------------------------------------------------------------
(* convert_to_markdown: the code test (docdown.py:234-237) *)

\* bool(run.font): run.font is a Font object made on each access; the class
\* defines neither __bool__ nor __len__, so the filter keeps every run
FontIsTruthy(run) == TRUE

\* run.font.name: the font name of the run's rPr, or None
FontName(run) == IF run.rPr = None THEN None ELSE run.rPr[1].font

MonospaceFonts == {"Consolas", "Courier New"}

\* is_code (docdown.py:234-237); paragraph.style.name.lower() raises when
\* the style has no name
IsCode(p) ==
    IF p.style = None THEN Raise
    ELSE Return(\/ StartsWith(Lower(p.style[1]), "code")
                \/ \A i \in 1..Len(p.runs) :
                      FontIsTruthy(p.runs[i]) =>
                          /\ FontName(p.runs[i]) # None
                          /\ FontName(p.runs[i])[1] \in MonospaceFonts)

-----------------------------------------------------------------------------
(* convert_to_markdown: the emitter (docdown.py:219-271) *)

\* A line of md_content, with the line of docdown.py that appended it
Line(text, at) == [text |-> text, at |-> at]

\* The fence line. A TLA+ string cannot hold a backquote: the three
\* backquotes of docdown.py:225 are written as three tildes
Fence == "~~~"

ClosingFence(at) == <<Line(Fence, at), Line("", at + 1)>>

\* if in_code_block: append the closing fence and a blank line, before a
\* heading (at = 225) or a paragraph that is not code (at = 249)
LeaveCodeBlockUnclosed(lines, in_code, at) == lines

LeaveCodeBlockNotForHeading(lines, in_code, at) ==
    IF in_code /\ at # 225 THEN lines \o ClosingFence(at) ELSE lines

LeaveCodeBlock(lines, in_code, at) ==
    IF in_code THEN lines \o ClosingFence(at) ELSE lines

\* if not in_code_block: append a blank line and the opening fence
\* (docdown.py:240-243)
EnterCodeBlock(lines, in_code) ==
    IF ~in_code THEN lines \o <<Line("", 241), Line(Fence, 242)>> ELSE lines

\* The lines of a paragraph that holds one image only (docdown.py:255-257)
ImageOnlyLinesNoBlankAfter(image) == <<Line("", 255), Line(image, 256)>>

ImageOnlyLines(image) == <<Line("", 255), Line(image, 256), Line("", 257)>>

\* The lines after a paragraph without content (docdown.py:263-266)
EmptyParagraphBlankInCode(lines, in_code) == Append(lines, Line("", 266))

EmptyParagraph(lines, in_code) ==
    IF ~in_code THEN Append(lines, Line("", 266)) ELSE lines

\* One iteration of the paragraph loop (docdown.py:179-266) from the emitter
\* state (lines, in_code): the new state and the locals the iteration set
\* (level and code are heading_level and is_code before it), or an exception
EmitParagraph(p, refs, lines, in_code, level, code) ==
    LET content == ParagraphContent(p.runs, refs)
        result(l, c, lv, cd) ==
            [raised |-> FALSE, md_content |-> l, in_code_block |-> c,
             paragraph_content |-> content, heading_level |-> lv, is_code |-> cd]
    IN
    IF content # <<>> THEN
        LET lv == get_heading_level(p) IN
        IF lv > 0 THEN
            LET heading_text == JoinContent(TextItems(content)) IN
            result(Append(LeaveCodeBlock(lines, in_code, 225),
                          Line(Hashes(lv) \o " " \o heading_text, 231)),
                   FALSE, lv, code)
        ELSE
            LET cd == IsCode(p) IN
            IF cd.raised THEN
                [raised |-> TRUE, md_content |-> lines, in_code_block |-> in_code,
                 paragraph_content |-> content, heading_level |-> lv, is_code |-> code]
            ELSE IF cd.value THEN
                LET code_text == JoinContent(TextItems(content)) IN
                result(Append(EnterCodeBlock(lines, in_code),
                              Line(Replace(code_text, "\t", "    "), 246)),
                       TRUE, lv, TRUE)
            ELSE
                LET closed == LeaveCodeBlock(lines, in_code, 249) IN
                IF Len(content) = 1 /\ content[1].type = "image" THEN
                    result(closed \o ImageOnlyLines(content[1].content), FALSE, lv, FALSE)
                ELSE
                    LET combined_content == JoinContent(content) IN
                    IF Strip(combined_content) # ""
                    THEN result(Append(closed, Line(combined_content, 262)),
                                FALSE, lv, FALSE)
                    ELSE result(closed, FALSE, lv, FALSE)
    ELSE result(EmptyParagraph(lines, in_code), in_code, level, code)

\* Close any open code block (docdown.py:268-271)
CloseOpenBlockOmitted(lines, in_code) == lines

CloseOpenBlock(lines, in_code) ==
    IF in_code THEN lines \o ClosingFence(270) ELSE lines

\* The blank-line post-pass (docdown.py:273-282)
RECURSIVE CleanUpFrom(_, _)
CleanUpFrom(lines, last_was_blank) ==
    IF Len(lines) = 0 THEN <<>>
    ELSE LET line == Head(lines) IN
         IF Strip(line.text) # "" THEN <<line>> \o CleanUpFrom(Tail(lines), FALSE)
         ELSE IF ~last_was_blank THEN <<line>> \o CleanUpFrom(Tail(lines), TRUE)
         ELSE CleanUpFrom(Tail(lines), last_was_blank)

\* The post-pass with last_was_blank never set
RECURSIVE CleanUpForgetful(_)
CleanUpForgetful(lines) ==
    IF Len(lines) = 0 THEN <<>>
    ELSE LET line == Head(lines) IN
         IF Strip(line.text) # "" THEN <<line>> \o CleanUpForgetful(Tail(lines))
         ELSE <<line>> \o CleanUpForgetful(Tail(lines))

\* The post-pass keeping no blank line
RECURSIVE CleanUpDroppingBlanks(_)
CleanUpDroppingBlanks(lines) ==
    IF Len(lines) = 0 THEN <<>>
    ELSE LET line == Head(lines) IN
         IF Strip(line.text) # "" THEN <<line>> \o CleanUpDroppingBlanks(Tail(lines))
         ELSE CleanUpDroppingBlanks(Tail(lines))

CleanUpLines(lines) == CleanUpFrom(lines, FALSE)

-----------------------------------------------------------------------------
(* extract_images (docdown.py:83-135) *)

\* doc_name, the stem of the document's path (docdown.py:161)
DocName == "report"

EmptyMap == [k \in {} |-> ""]

MapPut(f, k, v) == [x \in DOMAIN f \cup {k} |-> IF x = k THEN v ELSE f[x]]

\* rel.rId of the i-th relationship of the table
RelId(i) == "rId" \o ToString(i)

\* s.split('.')[-1]: what follows the last dot, or all of s
RECURSIVE AfterLastDot(_)
AfterLastDot(s) ==
    IF \E i \in 1..Len(s) : Char(s, i) = "."
    THEN AfterLastDot(SubSeq(s, (CHOOSE i \in 1..Len(s) : Char(s, i) = ".") + 1, Len(s)))
    ELSE s

ImageExtensions == {"png", "jpg", "jpeg", "gif", "bmp"}

\* image_ext (docdown.py:100-104)
ImageExt(target_ref) ==
    LET image_ext == Lower(AfterLastDot(target_ref)) IN
    IF image_ext \notin ImageExtensions THEN "png" ELSE image_ext

\* image_filename (docdown.py:107)
ImageFilename(doc_name, n, image_ext) ==
    doc_name \o "_image_" \o ToString(n) \o "." \o image_ext

\* The state of the loop of extract_images
ExtractState(refs, count, written, failed, raised) ==
    [image_refs |-> refs, file_image_count |-> count, image_files |-> written,
     failed_images |-> failed, raised |-> raised]

\* The counter after one more image (docdown.py:106)
NextImageCount(count) == count + 1

ExtractRelNumberKept(st, rel, rId, doc_name) ==
    IF ~rel.image THEN st
    ELSE IF rel.external THEN [st EXCEPT !.raised = TRUE]
    ELSE IF rel.blob = "" THEN st
    ELSE
        LET image_ext == ImageExt(rel.target_ref)
            count == st.file_image_count + 1
            image_filename == ImageFilename(doc_name, count, image_ext)
            file == [name |-> image_filename, n |-> count,
                     complete |-> rel.write = "ok"]
            error_msg == "Failed to extract image " \o ToString(count)
                             \o " from " \o doc_name
        IN  IF rel.write = "ok"
            THEN ExtractState(MapPut(st.image_refs, rId, "./images/" \o image_filename),
                              count, st.image_files \cup {file}, st.failed_images, FALSE)
            ELSE ExtractState(st.image_refs, st.file_image_count,
                              IF rel.write = "write_fails"
                              THEN st.image_files \cup {file} ELSE st.image_files,
                              Append(st.failed_images, <<doc_name, error_msg>>), FALSE)

\* The loop iteration without the inner try: a failed write leaves the loop
ExtractRelUnguarded(st, rel, rId, doc_name) ==
    IF ~rel.image THEN st
    ELSE IF rel.external THEN [st EXCEPT !.raised = TRUE]
    ELSE IF rel.blob = "" THEN st
    ELSE
        LET image_ext == ImageExt(rel.target_ref)
            count == NextImageCount(st.file_image_count)
            image_filename == ImageFilename(doc_name, count, image_ext)
            file == [name |-> image_filename, n |-> count,
                     complete |-> rel.write = "ok"]
        IN  IF rel.write = "ok"
            THEN ExtractState(MapPut(st.image_refs, rId, "./images/" \o image_filename),
                              count, st.image_files \cup {file}, st.failed_images, FALSE)
            ELSE ExtractState(st.image_refs, count,
                              IF rel.write = "write_fails"
                              THEN st.image_files \cup {file} ELSE st.image_files,
                              st.failed_images, TRUE)

\* The inner try of the loop for a relationship with a payload
\* (docdown.py:99-118): the extension, the counter, the write, the mapping
\* entry, and the handler of a write that raised
WriteImage(st, rel, rId, doc_name) ==
    LET image_ext == ImageExt(rel.target_ref)
        count == NextImageCount(st.file_image_count)
        image_filename == ImageFilename(doc_name, count, image_ext)
        file == [name |-> image_filename, n |-> count,
                 complete |-> rel.write = "ok"]
        error_msg == "Failed to extract image " \o ToString(count)
                         \o " from " \o doc_name
    IN  IF rel.write = "ok"
        THEN ExtractState(MapPut(st.image_refs, rId, "./images/" \o image_filename),
                          count, st.image_files \cup {file}, st.failed_images, FALSE)
        ELSE ExtractState(st.image_refs, count,
                          IF rel.write = "write_fails"
                          THEN st.image_files \cup {file} ELSE st.image_files,
                          Append(st.failed_images, <<doc_name, error_msg>>), FALSE)

ExtractRelEmptyCounted(st, rel, rId, doc_name) ==
    IF ~rel.image THEN st
    ELSE IF rel.external THEN [st EXCEPT !.raised = TRUE]
    ELSE IF rel.blob = ""
    THEN [st EXCEPT !.file_image_count = NextImageCount(st.file_image_count)]
    ELSE WriteImage(st, rel, rId, doc_name)

\* One iteration of the loop over doc.part.rels.values() (docdown.py:89-120).
\* rel.write is what the file system answers to the write of this image:
\* "ok", "open_fails" (no file is made) or "write_fails" (open made the file,
\* write raised). hasattr(rel, 'target_part') raises ValueError on a
\* relationship whose target is external: outside the inner try, the
\* exception leaves the loop (raised).
ExtractRel(st, rel, rId, doc_name) ==
    IF ~rel.image THEN st
    ELSE IF rel.external THEN [st EXCEPT !.raised = TRUE]
    ELSE IF rel.blob = "" THEN st
    ELSE WriteImage(st, rel, rId, doc_name)

\* The handler of an exception that left the loop (docdown.py:131-135)
ExtractFailed(st, doc_name) ==
    [st EXCEPT !.failed_images =
        Append(@, <<doc_name, "Failed to process images in " \o doc_name>>)]

\* The whole loop from relationship i on, as convert_to_markdown calls it
RECURSIVE ExtractFrom(_, _, _, _)
ExtractFrom(st, table, i, doc_name) ==
    IF i > Len(table) \/ st.raised THEN st
    ELSE ExtractFrom(ExtractRel(st, table[i], RelId(i), doc_name), table, i + 1, doc_name)

-----------------------------------------------------------------------------
(* The inputs *)

\* The longest relationship table
MaxRels == 3

\* The most paragraphs of a document
MaxParagraphs == 3

\* The most runs of a paragraph
MaxRuns == 2

\* The most lines of md_content the post-pass is called on alone
MaxLines == 4

\* A relationship: whether "image" is in its reltype, whether its target is
\* external, the blob of its target part, its target_ref, and the answer of
\* the file system to the write of its image. A field the code never reads
\* for a relationship holds one value.
Rels ==
    {r \in [image : BOOLEAN, external : BOOLEAN, blob : {"", "data"},
            target_ref : {"media/image1.PNG", "media/image2.emf"},
            write : {"ok", "open_fails", "write_fails"}] :
        /\ (~r.image \/ r.external \/ r.blob = "") =>
               (r.write = "ok" /\ r.target_ref = "media/image1.PNG")
        /\ (~r.image \/ r.external) => r.blob = "data"
        /\ ~r.image => ~r.external}

RelTables == SeqsUpTo(Rels, MaxRels)

ImageRel(write) ==
    [image |-> TRUE, external |-> FALSE, blob |-> "data",
     target_ref |-> "media/image1.PNG", write |-> write]

RunProps(sz, b, font) == Some([sz |-> sz, b |-> b, font |-> font])

Run(text, rPr, drawings) == [text |-> text, rPr |-> rPr, drawings |-> drawings]

Drawing(embed, descr) == [embed |-> embed, descr |-> descr]

Paragraph(style, runs) == [style |-> style, runs |-> runs]

NoParagraph == Paragraph(None, <<>>)

TextRun == Run("a", None, <<>>)

ImageRun == Run("", None, <<Drawing(Some(RelId(1)), None)>>)

\* The paragraphs of the documents of Spec
Paragraphs ==
    {Paragraph(Some(style), runs) :
        style \in {"Normal", "Heading 2", "Code"},
        runs \in {<<>>, <<TextRun>>, <<ImageRun>>}}

Documents == SeqsUpTo(Paragraphs, MaxParagraphs)

\* The paragraphs of the documents of SpecParagraph: any style, any runs
AnyRuns ==
    {Run(text, rPr, drawings) :
        text \in {" ", " a"},
        rPr \in {None, RunProps(None, TRUE, None),
                 RunProps(None, FALSE, Some("Consolas")),
                 RunProps(None, FALSE, Some("Arial"))},
        drawings \in {<<>>, <<Drawing(Some(RelId(1)), Some(" fig\n1 "))>>}}

AnyParagraphs ==
    {Paragraph(style, runs) :
        style \in {Some("Normal"), Some("Heading 7"), Some("Code Block"), None},
        runs \in SeqsUpTo(AnyRuns, MaxRuns)}

\* One paragraph, alone or after a code paragraph
OneParagraphDocuments ==
    {<<p>> : p \in AnyParagraphs}
        \cup {<<Paragraph(Some("Code"), <<TextRun>>), p>> : p \in AnyParagraphs}

\* The paragraphs of SpecHeading: any style, any explicit size and bold flag
HeadingRuns ==
    {Run("a", rPr, <<>>) :
        rPr \in {None} \cup
            {RunProps(sz, b, None) :
                sz \in {None, Some("27"), Some("28"), Some("32"), Some("40"), Some("")},
                b \in BOOLEAN}}

HeadingParagraphs ==
    {Paragraph(style, runs) :
        style \in {None, Some("Normal"), Some("Title"), Some("Heading"),
                   Some("Heading 1"), Some("Heading 6"), Some("Heading 7"),
                   Some("Heading 9"), Some("Heading 2 Char")},
        runs \in SeqsUpTo(HeadingRuns, MaxRuns)}

-----------------------------------------------------------------------------
(* The state machines *)

ConvertIdle ==
    /\ paragraph_content = <<>>
    /\ heading_level = 0
    /\ is_code = FALSE
    /\ md_content = <<>>
    /\ in_code_block = FALSE
    /\ cleaned_content = <<>>
    /\ md_file = None
    /\ n_paragraphs = 0

ExtractIdle ==
    /\ rel_index = 0
    /\ image_refs = EmptyMap
    /\ file_image_count = 0
    /\ image_files = {}
    /\ failed_images = <<>>
    /\ file_image_counts = EmptyMap
    /\ total_images = 0

BatchIdle ==
    /\ mode = "file"
    /\ files = <<>>
    /\ file_index = 0
    /\ total_files = 0
    /\ successful_files = <<>>
    /\ failed_files = <<>>
    /\ skipped_files = <<>>
    /\ converted_files = <<>>
    /\ md_files = EmptyMap
    /\ status = None

\* The extractor's variables as the state of its loop
ExtractNow == ExtractState(image_refs, file_image_count, image_files, failed_images, FALSE)

\* The extractor's variables after the loop ended in st: the statistics are
\* updated on the normal return alone (docdown.py:122-135)
ExtractDone(st) ==
    LET end == IF st.raised THEN ExtractFailed(st, DocName) ELSE st IN
    /\ image_refs' = end.image_refs
    /\ file_image_count' = end.file_image_count
    /\ image_files' = end.image_files
    /\ failed_images' = end.failed_images
    /\ file_image_counts' =
           IF st.raised THEN file_image_counts
           ELSE MapPut(file_image_counts, DocName, end.file_image_count)
    /\ total_images' =
           IF st.raised THEN total_images ELSE total_images + end.file_image_count

(* get_heading_level, called on one paragraph *)

InitHeading ==
    /\ pc = "get_heading_level"
    /\ paragraph \in HeadingParagraphs
    /\ doc_paragraphs = <<>>
    /\ rels = <<>>
    /\ ConvertIdle /\ ExtractIdle /\ BatchIdle

GetHeadingLevel ==
    /\ pc = "get_heading_level"
    /\ heading_level' = get_heading_level(paragraph)
    /\ pc' = "returned"
    /\ UNCHANGED <<paragraph, paragraph_content, is_code, md_content, in_code_block,
                   cleaned_content, md_file, doc_paragraphs, n_paragraphs>>
    /\ UNCHANGED <<rels, extract_vars, batch_vars>>

NextHeading == GetHeadingLevel

SpecHeading == InitHeading /\ [][NextHeading]_vars

(* extract_images, one relationship at a time *)

InitExtract ==
    /\ pc = "extract_loop"
    /\ rels \in RelTables
    /\ paragraph = NoParagraph
    /\ doc_paragraphs = <<>>
    /\ ConvertIdle /\ ExtractIdle /\ BatchIdle

\* One iteration of the loop (docdown.py:89-120), and the handler of an
\* exception that leaves it (docdown.py:131-135)
ExtractImage ==
    /\ pc = "extract_loop"
    /\ rel_index < Len(rels)
    /\ LET st == ExtractRel(ExtractNow, rels[rel_index + 1], RelId(rel_index + 1), DocName)
       IN  IF st.raised
           THEN /\ ExtractDone(st)
                /\ pc' = "extract_returned"
           ELSE /\ image_refs' = st.image_refs
                /\ file_image_count' = st.file_image_count
                /\ image_files' = st.image_files
                /\ failed_images' = st.failed_images
                /\ UNCHANGED <<file_image_counts, total_images, pc>>
    /\ rel_index' = rel_index + 1
    /\ UNCHANGED rels
    /\ UNCHANGED <<convert_vars, batch_vars>>

\* The end of the loop: the statistics and the return (docdown.py:122-129)
ExtractReturn ==
    /\ pc = "extract_loop"
    /\ rel_index = Len(rels)
    /\ ExtractDone(ExtractNow)
    /\ pc' = "extract_returned"
    /\ UNCHANGED <<rels, rel_index>>
    /\ UNCHANGED <<convert_vars, batch_vars>>

NextExtract == ExtractImage \/ ExtractReturn

SpecExtract == InitExtract /\ [][NextExtract]_vars

(* convert_to_markdown, from the call of extract_images on *)

InitConvert(documents) ==
    /\ pc = "extract_images"
    /\ rels \in {<<ImageRel("ok")>>, <<ImageRel("open_fails")>>}
    /\ paragraph = NoParagraph
    /\ doc_paragraphs \in documents
    /\ ConvertIdle /\ ExtractIdle /\ BatchIdle

\* image_refs = extract_images(...) (docdown.py:173)
ExtractImages ==
    /\ pc = "extract_images"
    /\ ExtractDone(ExtractFrom(ExtractNow, rels, 1, DocName))
    /\ rel_index' = Len(rels)
    /\ pc' = "paragraphs"
    /\ UNCHANGED rels
    /\ UNCHANGED <<convert_vars, batch_vars>>

\* One iteration of the paragraph loop (docdown.py:179-266); an exception
\* leaves convert_to_markdown (docdown.py:305-309)
NextParagraph ==
    /\ pc = "paragraphs"
    /\ n_paragraphs < Len(doc_paragraphs)
    /\ LET p == doc_paragraphs[n_paragraphs + 1]
           r == EmitParagraph(p, image_refs, md_content, in_code_block,
                              heading_level, is_code)
       IN  /\ paragraph' = p
           /\ paragraph_content' = r.paragraph_content
           /\ heading_level' = r.heading_level
           /\ is_code' = r.is_code
           /\ md_content' = r.md_content
           /\ in_code_block' = r.in_code_block
           /\ pc' = IF r.raised THEN "failed" ELSE "paragraphs"
    /\ n_paragraphs' = n_paragraphs + 1
    /\ UNCHANGED <<cleaned_content, md_file, doc_paragraphs>>
    /\ UNCHANGED <<rels, extract_vars, batch_vars>>

\* After the last paragraph: close any open code block (docdown.py:268-271)
EndOfParagraphs ==
    /\ pc = "paragraphs"
    /\ n_paragraphs = Len(doc_paragraphs)
    /\ md_content' = CloseOpenBlock(md_content, in_code_block)
    /\ pc' = "clean_up"
    /\ UNCHANGED <<paragraph, paragraph_content, heading_level, is_code, in_code_block,
                   cleaned_content, md_file, doc_paragraphs, n_paragraphs>>
    /\ UNCHANGED <<rels, extract_vars, batch_vars>>

\* Clean up multiple consecutive blank lines (docdown.py:273-282)
CleanUp ==
    /\ pc = "clean_up"
    /\ cleaned_content' = CleanUpLines(md_content)
    /\ pc' = "write"
    /\ UNCHANGED <<paragraph, paragraph_content, heading_level, is_code, md_content,
                   in_code_block, md_file, doc_paragraphs, n_paragraphs>>
    /\ UNCHANGED <<rels, extract_vars, batch_vars>>

\* Save the Markdown file (docdown.py:284-291): the file holds the lines of
\* cleaned_content; open may raise, and write may raise once open has made
\* the file
WriteMarkdown ==
    /\ pc = "write"
    /\ \E answer \in {"ok", "open_fails", "write_fails"} :
          /\ md_file' = IF answer = "ok" THEN Some([i \in 1..Len(cleaned_content) |->
                                                       cleaned_content[i].text])
                        ELSE IF answer = "write_fails" THEN Some(<<>>)
                        ELSE md_file
          /\ pc' = IF answer = "ok" THEN "done" ELSE "failed"
    /\ UNCHANGED <<paragraph, paragraph_content, heading_level, is_code, md_content,
                   in_code_block, cleaned_content, doc_paragraphs, n_paragraphs>>
    /\ UNCHANGED <<rels, extract_vars, batch_vars>>

(* The blank-line post-pass, called on any lines the emitter appends *)

\* The lines: the blank line of an empty paragraph, the empty line of a code
\* paragraph that holds an image only, a paragraph line, a fence
EmittedLines == {Line("", 266), Line("", 246), Line("a", 262), Line(Fence, 242)}

InitCleanUp ==
    /\ pc = "clean_up"
    /\ md_content \in SeqsUpTo(EmittedLines, MaxLines)
    /\ paragraph = NoParagraph
    /\ doc_paragraphs = <<>>
    /\ rels = <<>>
    /\ paragraph_content = <<>>
    /\ heading_level = 0
    /\ is_code = FALSE
    /\ in_code_block = FALSE
    /\ cleaned_content = <<>>
    /\ md_file = None
    /\ n_paragraphs = 0
    /\ ExtractIdle /\ BatchIdle

NextCleanUp == CleanUp

SpecCleanUp == InitCleanUp /\ [][NextCleanUp]_vars

Next == ExtractImages \/ NextParagraph \/ EndOfParagraphs \/ CleanUp \/ WriteMarkdown

Init == InitConvert(Documents)

Spec == Init /\ [][Next]_vars

InitParagraph == InitConvert(OneParagraphDocuments)

SpecParagraph == InitParagraph /\ [][Next]_vars

-----------------------------------------------------------------------------
(* convert_to_markdown as process_directory and main call it, on one file *)

EndsWith(s, suffix) ==
    /\ Len(s) >= Len(suffix)
    /\ SubSeq(s, Len(s) - Len(suffix) + 1, Len(s)) = suffix

\* file.endswith(('.doc', '.docx')) (docdown.py:319, 421)
IsWordFile(name) == EndsWith(name, ".doc") \/ EndsWith(name, ".docx")

\* Path(doc_path).stem (docdown.py:161): the name without its last suffix
Stem(name) == SubSeq(name, 1, Len(name) - Len(AfterLastDot(name)) - 1)

\* root (docdown.py:317) for the i-th file of the walk: the files of one
\* directory have different names, so the k-th file of a name is in the
\* k-th directory
DocDir(i) ==
    "in/d" \o ToString(Cardinality({j \in 1..(i - 1) : files[j].name = files[i].name}) + 1)

\* os.path.join(root, file) (docdown.py:321) for the i-th file of the walk
DocPath(i, name) == DocDir(i) \o "/" \o name

\* os.path.dirname(path): the path before its last separator
RECURSIVE Dirname(_)
Dirname(path) ==
    IF path = "" THEN ""
    ELSE IF Char(path, Len(path)) = "/" THEN SubSeq(path, 1, Len(path) - 1)
    ELSE Dirname(SubSeq(path, 1, Len(path) - 1))

\* target_dir (docdown.py:164-165): the output directory, then the path of
\* the document's directory from the directory of the output directory
TargetDir(doc_path) == "out/" \o Dirname(doc_path)

\* output_path (docdown.py:285)
OutputPath(doc_path, doc_name) == TargetDir(doc_path) \o "/" \o doc_name \o ".md"

\* image_path (docdown.py:108) of the files extract_images wrote, image_dir
\* being the images directory of target_dir (docdown.py:169)
ImagePaths(doc_path, written) ==
    {[f EXCEPT !.name = TargetDir(doc_path) \o "/images/" \o f.name] : f \in written}

\* The first four bytes of a ZIP archive, b'PK\x03\x04' (docdown.py:327)
ZipHeader == "PK"

\* The only element of a set of one element
The(set) == CHOOSE x \in set : TRUE

\* The paragraph loop from paragraph i on, from the emitter state st
RECURSIVE EmitFrom(_, _, _, _)
EmitFrom(paragraphs, i, refs, st) ==
    IF i > Len(paragraphs) \/ st.raised THEN st
    ELSE The({EmitFrom(paragraphs, i + 1, refs, next) :
                 next \in {EmitParagraph(paragraphs[i], refs, st.md_content,
                                         st.in_code_block, st.heading_level,
                                         st.is_code)}})

\* How a call of convert_to_markdown ended: whether it raised, the entry its
\* handler appended to stats.failed_files, what extract_images did (None: it
\* was not called), and the Markdown file left on disk (None: no file)
FailedLeavingFile(doc_path, doc_name, msg, extract, md) ==
    [raised |-> TRUE, failed_entry |-> <<doc_path, msg>>, extract |-> extract,
     md |-> Some(<<>>), doc_name |-> doc_name]

Failed(doc_path, doc_name, msg, extract, md) ==
    [raised |-> TRUE, failed_entry |-> <<doc_path, msg>>, extract |-> extract,
     md |-> md, doc_name |-> doc_name]

Succeeded(doc_name, extract, md) ==
    [raised |-> FALSE, failed_entry |-> None, extract |-> extract, md |-> md,
     doc_name |-> doc_name]

\* The end of convert_to_markdown (docdown.py:268-291), the paragraph loop
\* having ended in `emitted'
WriteDocument(doc_path, file, extract, emitted) ==
    LET doc_name == Stem(file.name) IN
    IF emitted.raised
    THEN Failed(doc_path, doc_name, "'NoneType' object has no attribute 'lower'",
                Some(extract), None)
    ELSE The({IF file.write = "ok"
              THEN Succeeded(doc_name, Some(extract),
                             Some([i \in 1..Len(cleaned) |-> cleaned[i].text]))
              ELSE Failed(doc_path, doc_name, "cannot write " \o OutputPath(doc_path, doc_name),
                          Some(extract),
                          IF file.write = "write_fails" THEN Some(<<>>) ELSE None) :
                 cleaned \in {CleanUpLines(CloseOpenBlock(emitted.md_content,
                                                         emitted.in_code_block))}})

\* The translation of an opened document (docdown.py:172-291), extract_images
\* having ended in `extract'
TranslateDocument(doc_path, file, extract) ==
    The({WriteDocument(doc_path, file, extract, emitted) :
            emitted \in {EmitFrom(file.paragraphs, 1, extract.image_refs,
                                  [raised |-> FALSE, md_content |-> <<>>,
                                   in_code_block |-> FALSE, heading_level |-> 0,
                                   is_code |-> FALSE])}})

\* convert_to_markdown (docdown.py:137-309) on the file `file' at doc_path.
\* file.document is what Document(doc_path) answers: "ok", or the text of
\* its exception; file.write is what the file system answers to the write of
\* the Markdown file.
ConvertToMarkdown(doc_path, file) ==
    LET doc_name == Stem(file.name) IN
    IF ~file.exists
    THEN Failed(doc_path, doc_name, "File not found: " \o doc_path, None, None)
    ELSE IF file.size = 0
    THEN Failed(doc_path, doc_name, "File is empty: " \o doc_path, None, None)
    ELSE IF file.document = "Package not found"
    THEN Failed(doc_path, doc_name,
                "File appears to be corrupted or not a valid Word document: " \o doc_path,
                None, None)
    ELSE IF file.document # "ok"
    THEN Failed(doc_path, doc_name, file.document, None, None)
    ELSE The({TranslateDocument(doc_path, file, extract) :
                 extract \in {ExtractFrom(ExtractState(EmptyMap, 0, {}, <<>>, FALSE),
                                          file.rels, 1, doc_name)}})

\* What a call of convert_to_markdown that ended as r leaves in the
\* statistics and on disk; a file written under a name in use replaces the
\* file of that name
Converted(doc_path, r) ==
    LET st == IF r.extract = None THEN ExtractState(EmptyMap, 0, {}, <<>>, FALSE)
              ELSE r.extract[1]
        end == IF st.raised THEN ExtractFailed(st, r.doc_name) ELSE st
        counted == r.extract # None /\ ~st.raised
    IN  /\ failed_files' = IF r.raised THEN Append(failed_files, r.failed_entry)
                           ELSE failed_files
        /\ successful_files' = IF r.raised THEN successful_files
                               ELSE Append(successful_files, doc_path)
        /\ md_files' = IF r.md = None THEN md_files
                       ELSE MapPut(md_files, OutputPath(doc_path, r.doc_name), r.md[1])
        /\ image_files' =
               {f \in image_files :
                   \A g \in ImagePaths(doc_path, end.image_files) : g.name # f.name}
                   \cup ImagePaths(doc_path, end.image_files)
        /\ failed_images' = failed_images \o end.failed_images
        /\ file_image_counts' = IF counted
                                THEN MapPut(file_image_counts, r.doc_name,
                                            end.file_image_count)
                                ELSE file_image_counts
        /\ total_images' = IF counted THEN total_images + end.file_image_count
                           ELSE total_images

-----------------------------------------------------------------------------
(* process_directory and main *)

\* The most files of a directory
MaxFiles == 2

File(name, opens, header, exists, size, document, table, paragraphs, write) ==
    [name |-> name, opens |-> opens, header |-> header, exists |-> exists,
     size |-> size, document |-> document, rels |-> table,
     paragraphs |-> paragraphs, write |-> write]

WordFile(name, document, table, paragraphs, write) ==
    File(name, TRUE, ZipHeader, TRUE, 1, document, table, paragraphs, write)

\* The files: a text file; a file that cannot be opened; a .doc in the old
\* format; an empty file; a file removed after the header check; an archive
\* python-docx does not find a package in; an archive it fails on otherwise;
\* a document with a paragraph whose style has no name; documents that
\* convert, with and without a failing image; documents whose Markdown
\* file cannot be opened or written. Files of different directories share
\* names, and r.doc and r.docx of one directory share the stem and so the
\* Markdown file.
Files ==
    {File("notes.txt", TRUE, "text", TRUE, 1, "ok", <<>>, <<>>, "ok"),
     File("r.docx", FALSE, ZipHeader, TRUE, 1, "ok", <<>>, <<>>, "ok"),
     File("r.doc", TRUE, "\\xd0\\xcf", TRUE, 1, "ok", <<>>, <<>>, "ok"),
     File("s.docx", TRUE, "", TRUE, 0, "ok", <<>>, <<>>, "ok"),
     File("s.docx", TRUE, ZipHeader, FALSE, 1, "ok", <<>>, <<>>, "ok"),
     WordFile("r.docx", "Package not found", <<>>, <<>>, "ok"),
     WordFile("s.docx", "no relationship of type officeDocument", <<>>, <<>>, "ok"),
     WordFile("r.docx", "ok", <<ImageRel("write_fails")>>,
              <<Paragraph(None, <<TextRun>>)>>, "ok"),
     WordFile("r.docx", "ok", <<ImageRel("ok")>>,
              <<Paragraph(Some("Code"), <<TextRun>>), Paragraph(Some("Normal"), <<>>),
                Paragraph(Some("Normal"), <<ImageRun>>)>>, "ok"),
     WordFile("s.docx", "ok", <<ImageRel("open_fails")>>,
              <<Paragraph(Some("Heading 2"), <<TextRun>>)>>, "ok"),
     WordFile("s.docx", "ok", <<>>, <<Paragraph(Some("Normal"), <<TextRun>>)>>,
              "open_fails"),
     WordFile("r.doc", "ok", <<>>, <<Paragraph(Some("Normal"), <<TextRun>>)>>,
              "write_fails")}

\* The name of the i-th file of the walk
FileName(i) == files[i].name

InitBatch ==
    /\ mode \in {"file", "directory"}
    /\ files \in IF mode = "file" THEN {<<f>> : f \in Files} ELSE SeqsUpTo(Files, MaxFiles)
    /\ pc = IF mode = "file" THEN "main" ELSE "walk"
    /\ file_index = 0
    /\ total_files = 0
    /\ successful_files = <<>>
    /\ failed_files = <<>>
    /\ skipped_files = <<>>
    /\ converted_files = <<>>
    /\ md_files = EmptyMap
    /\ status = None
    /\ paragraph = NoParagraph
    /\ doc_paragraphs = <<>>
    /\ rels = <<>>
    /\ ConvertIdle /\ ExtractIdle

InSeq(x, seq) == \E i \in 1..Len(seq) : seq[i] = x

\* The loop goes on with the next file after an exception (docdown.py:340-344)
AbortAfterException(index, count) == count

ContinueAfterException(index, count) == index + 1

\* One iteration of the loop of process_directory (docdown.py:318-344)
ProcessFile ==
    /\ pc = "walk"
    /\ file_index < Len(files)
    /\ LET i == file_index + 1
           name == FileName(i)
           doc_path == DocPath(i, name)
           file == files[i]
           skipped == IF InSeq(doc_path, skipped_files) THEN skipped_files
                      ELSE Append(skipped_files, doc_path)
       IN  IF ~IsWordFile(name) THEN
               /\ file_index' = i
               /\ UNCHANGED <<total_files, successful_files, failed_files, skipped_files,
                              converted_files, md_files, image_files, failed_images,
                              file_image_counts, total_images>>
           ELSE IF ~file.opens THEN
               /\ total_files' = total_files + 1
               /\ skipped_files' = skipped
               /\ file_index' = ContinueAfterException(file_index, Len(files))
               /\ UNCHANGED <<successful_files, failed_files, converted_files, md_files,
                              image_files, failed_images, file_image_counts,
                              total_images>>
           ELSE IF file.header # ZipHeader THEN
               /\ total_files' = total_files + 1
               /\ failed_files' =
                      Append(failed_files,
                             <<doc_path, "File has .docx extension but is not a valid Word document: "
                                             \o doc_path>>)
               /\ skipped_files' = Append(skipped_files, doc_path)
               /\ file_index' = i
               /\ UNCHANGED <<successful_files, converted_files, md_files, image_files,
                              failed_images, file_image_counts, total_images>>
           ELSE \E r \in {ConvertToMarkdown(doc_path, file)} :
               /\ total_files' = total_files + 1
               /\ Converted(doc_path, r)
               /\ skipped_files' = IF r.raised THEN skipped ELSE skipped_files
               /\ converted_files' =
                      IF r.raised THEN converted_files
                      ELSE Append(converted_files, <<doc_path, OutputPath(doc_path, r.doc_name)>>)
               /\ file_index' = IF r.raised
                                THEN ContinueAfterException(file_index, Len(files))
                                ELSE i
    /\ UNCHANGED <<pc, mode, files, status, rels, rel_index, image_refs, file_image_count>>
    /\ UNCHANGED convert_vars

\* process_directory returns (docdown.py:346-351)
ProcessDirectoryReturn ==
    /\ pc = "walk"
    /\ file_index = Len(files)
    /\ pc' = "summary"
    /\ UNCHANGED <<convert_vars, rels, extract_vars, batch_vars>>

\* main on a single file (docdown.py:419-424); an exception of
\* convert_to_markdown is a fatal error (docdown.py:435-437)
ConvertSingleFile ==
    /\ pc = "main"
    /\ LET name == FileName(1)
           doc_path == DocPath(1, name)
       IN  IF IsWordFile(name) THEN \E r \in {ConvertToMarkdown(doc_path, files[1])} :
               /\ total_files' = total_files + 1
               /\ Converted(doc_path, r)
               /\ pc' = IF r.raised THEN "exit" ELSE "summary"
               /\ status' = IF r.raised THEN Some(1) ELSE status
           ELSE
               /\ pc' = "summary"
               /\ UNCHANGED <<total_files, successful_files, failed_files, md_files,
                              image_files, failed_images, file_image_counts,
                              total_images, status>>
    /\ file_index' = 1
    /\ UNCHANGED <<mode, files, skipped_files, converted_files, rels, rel_index,
                   image_refs, file_image_count>>
    /\ UNCHANGED convert_vars

\* print_summary and the return of main (docdown.py:429-433)
MainReturn ==
    /\ pc = "summary"
    /\ status' = Some(IF failed_files # <<>> \/ failed_images # <<>> THEN 1 ELSE 0)
    /\ pc' = "exit"
    /\ UNCHANGED <<mode, files, file_index, total_files, successful_files, failed_files,
                   skipped_files, converted_files, md_files>>
    /\ UNCHANGED <<convert_vars, rels, extract_vars>>

NextBatch == ProcessFile \/ ProcessDirectoryReturn \/ ConvertSingleFile \/ MainReturn

SpecBatch == InitBatch /\ [][NextBatch]_vars

-----------------------------------------------------------------------------
(* The properties *)

\* The lines of docdown.py that append an opening and a closing fence
OpeningFenceAt == {242}

ClosingFenceAt == {225, 249, 270}

IsBlank(line) == Strip(line.text) = ""

Count(lines, at) == Cardinality({i \in 1..Len(lines) : lines[i].at \in at})

\* Opening fences appended minus closing fences appended
FenceDepth(lines) == Count(lines, OpeningFenceAt) - Count(lines, ClosingFenceAt)

\* The kind of the paragraph the loop has just taken, by the emitter's own
\* tests (docdown.py:220, 223, 239, 254)
Kind ==
    IF paragraph_content = <<>> THEN "Empty"
    ELSE IF heading_level > 0 THEN "Heading"
    ELSE IF is_code THEN "Code"
    ELSE IF Len(paragraph_content) = 1 /\ paragraph_content[1].type = "image"
         THEN "ImageOnly"
    ELSE "Normal"

\* The paragraph loop has just taken a paragraph, without an exception
TookParagraph == pc = "paragraphs" /\ n_paragraphs > 0

\* A step of the paragraph loop that ends without an exception
ParagraphStep == pc = "paragraphs" /\ pc' = "paragraphs" /\ n_paragraphs' = n_paragraphs + 1

\* line sequence s begins with line sequence t
BeginsWith(s, t) == Len(s) >= Len(t) /\ SubSeq(s, 1, Len(t)) = t

\* C1: code fences are balanced and never nest. While the paragraph loop
\* runs, opening fences appended minus closing fences appended is 1 when
\* in_code_block and 0 when not, every prefix of the emitted lines has depth
\* 0 or 1 (no opening fence inside an open block), and once the document has
\* ended the depth is 0, in md_content and in the cleaned lines.
C1_FencesBalanced ==
    /\ pc = "paragraphs" =>
           FenceDepth(md_content) = (IF in_code_block THEN 1 ELSE 0)
    /\ \A k \in 0..Len(md_content) : FenceDepth(SubSeq(md_content, 1, k)) \in {0, 1}
    /\ pc \in {"clean_up", "write", "done"} => FenceDepth(md_content) = 0
    /\ pc \in {"write", "done"} => FenceDepth(cleaned_content) = 0

\* C1's case: a document that ends inside a code block has been written
C1_Witness ==
    /\ pc = "done"
    /\ Kind = "Code"
    /\ in_code_block
    /\ Count(md_content, {270}) = 1
    /\ Count(md_content, OpeningFenceAt) = 2

\* C2: the cleaned lines, and so the lines written to the Markdown file,
\* never hold two adjacent blank lines.
C2_NoAdjacentBlankLines ==
    /\ \A i \in 1..(Len(cleaned_content) - 1) :
           ~(IsBlank(cleaned_content[i]) /\ IsBlank(cleaned_content[i + 1]))
    /\ md_file # None =>
           \A i \in 1..(Len(md_file[1]) - 1) :
               ~(Strip(md_file[1][i]) = "" /\ Strip(md_file[1][i + 1]) = "")

\* C2's case: the blank line after a closing fence met the blank line before
\* an image, and the file was written
C2_Witness ==
    /\ pc = "done"
    /\ md_file # None
    /\ \E i \in 1..(Len(md_content) - 1) :
           md_content[i].at = 250 /\ md_content[i + 1].at = 255
    /\ Len(cleaned_content) < Len(md_content)

\* The texts of a sequence of lines
Texts(lines) == [i \in 1..Len(lines) |-> lines[i].text]

\* The step appended a closing fence and a blank line before anything else
ClosedFirst ==
    \E at \in {225, 249} : BeginsWith(md_content', md_content \o ClosingFence(at))

\* C7, as claimed: inside a code block, a paragraph of any kind but Code
\* (Heading, Normal, ImageOnly or Empty) makes the emitter append a closing
\* fence and a blank line first and leave the code block.
C7_ClosesOnAnyNonCode ==
    [][(ParagraphStep /\ in_code_block /\ Kind' # "Code")
           => (~in_code_block' /\ ClosedFirst)]_vars

\* C7, amended: inside a code block, a Heading, Normal or ImageOnly
\* paragraph makes the emitter append a closing fence and a blank line first
\* and leave the code block; a Code paragraph appends no closing fence and
\* stays inside; an Empty paragraph appends nothing and stays inside.
C7_ClosesOnContentNonCode ==
    [][(ParagraphStep /\ in_code_block) =>
           /\ Kind' \in {"Heading", "Normal", "ImageOnly"} =>
                  (~in_code_block' /\ ClosedFirst)
           /\ Kind' \in {"Code", "Empty"} =>
                  /\ in_code_block'
                  /\ Count(md_content', ClosingFenceAt) = Count(md_content, ClosingFenceAt)
           /\ Kind' = "Empty" => md_content' = md_content]_vars

\* C7's case: a code paragraph, a paragraph without content that left the
\* block open, and a normal paragraph that closed it
C7_Witness ==
    /\ TookParagraph
    /\ n_paragraphs = 3
    /\ doc_paragraphs[2].runs = <<>>
    /\ Kind = "Normal"
    /\ ~in_code_block
    /\ [i \in 1..Len(md_content) |-> md_content[i].at] = <<241, 242, 246, 249, 250, 262>>

OneImage(content) == Len(content) = 1 /\ content[1].type = "image"

\* The step appended exactly new_texts, after a closing fence and a blank
\* line when it began inside a code block
AppendedAfterClosing(new_texts) ==
    LET closing == IF in_code_block THEN <<Fence, "">> ELSE <<>>
    IN  Texts(md_content') = Texts(md_content) \o closing \o new_texts

DeclaresFont(run) == FontName(run) # None

\* The code test as C9 claims it
ClaimedCode(p) ==
    \/ StartsWith(Lower(p.style[1]), "code")
    \/ /\ \E i \in 1..Len(p.runs) : DeclaresFont(p.runs[i])
       /\ \A i \in 1..Len(p.runs) :
              DeclaresFont(p.runs[i]) => FontName(p.runs[i])[1] \in MonospaceFonts

\* C9: a paragraph with content whose heading level is 0 is code if and only
\* if its lower-cased style name starts with "code", or it has a run that
\* declares a font name and every run that declares one declares Consolas or
\* Courier New (runs that declare no font name do not count).
C9_CodeIffFontDeclaringRunsMonospace ==
    (TookParagraph /\ paragraph_content # <<>> /\ heading_level = 0)
        => (is_code <=> ClaimedCode(paragraph))

\* The sequence numbers in the names of the images written in full
WrittenNumbers == {f.n : f \in {g \in image_files : g.complete}}

\* C3: once extract_images has returned, the sequence numbers of the images
\* written are exactly 1..k, k the number of images written.
C3_NumbersAreOneToK ==
    pc = "extract_returned" => WrittenNumbers = 1..Cardinality(WrittenNumbers)

\* Relationship i is an image relationship with a payload, so its image is
\* written when the loop takes it
Writes(i) == rels[i].image /\ ~rels[i].external /\ rels[i].blob # ""

\* The relationships the loop has taken whose write was attempted and failed,
\* succeeded
FailedWrites == {i \in 1..rel_index : Writes(i) /\ rels[i].write # "ok"}

GoodWrites == {i \in 1..rel_index : Writes(i) /\ rels[i].write = "ok"}

\* The loop was left by an exception outside the inner try
LoopLeft ==
    pc = "extract_returned" /\ rel_index > 0 /\ rels[rel_index].image /\ rels[rel_index].external

\* C6: a write failure stays with its image. Each failed write has appended
\* one (document name, message) entry to failed_images, and nothing else has
\* but the exception of a relationship that cannot be inspected; no failed
\* write ends the loop, which returns after the last relationship; and
\* image_refs has an entry for a reference id if and only if its
\* relationship is an image relationship with a payload whose write
\* succeeded.
C6_WriteFailureIsolated ==
    /\ Len(failed_images) = Cardinality(FailedWrites) + (IF LoopLeft THEN 1 ELSE 0)
    /\ \A i \in 1..Len(failed_images) : failed_images[i][1] = DocName
    /\ pc = "extract_returned" => (rel_index = Len(rels) \/ LoopLeft)
    /\ DOMAIN image_refs = {RelId(i) : i \in GoodWrites}

\* C6's case: a write failed and the image of a later relationship was
\* written and mapped
C6_Witness ==
    /\ pc = "extract_returned"
    /\ \E i \in FailedWrites : \E j \in GoodWrites : i < j /\ RelId(j) \in DOMAIN image_refs
    /\ Len(failed_images) = 1

\* C4: get_heading_level returns a level in 0..6, also for a style named
\* "Heading N" with N above 6.
C4_LevelAtMostSix ==
    pc = "returned" => heading_level \in 0..6

\* The level C10 claims for explicit run properties: by the size when there
\* is one (0 below 14pt), by the bold flag when there is no size
ClaimedFormatLevel(props) ==
    IF props.sz # None THEN
        LET val == int(props.sz[1]) IN
        IF val.raised THEN 0
        ELSE IF val.value \div 2 >= 20 THEN 1
        ELSE IF val.value \div 2 >= 16 THEN 2
        ELSE IF val.value \div 2 >= 14 THEN 3
        ELSE 0
    ELSE IF props.b THEN 3
    ELSE 0

\* C10: for a style that is neither a heading style nor Title, the level
\* comes from the first run with explicit run properties: from its size
\* when it has one (1, 2, 3, or 0 below 14pt), from the bold flag only when
\* it has no size; a bold run with a size below 14pt gives 0.
C10_BoldOnlyWithoutSize ==
    (/\ pc = "returned"
     /\ paragraph.style # None
     /\ ~StartsWith(paragraph.style[1], "Heading")
     /\ paragraph.style[1] # "Title")
        => heading_level =
               (IF FirstRunProps(paragraph.runs) = None THEN 0
                ELSE ClaimedFormatLevel(FirstRunProps(paragraph.runs)[1]))

\* convert_to_markdown called on the i-th file alone
Alone(i) == ConvertToMarkdown(DocPath(i, FileName(i)), files[i])

\* File i converts when convert_to_markdown is called on it alone
ConvertsAlone(i) ==
    /\ IsWordFile(FileName(i))
    /\ files[i].opens
    /\ files[i].header = ZipHeader
    /\ ~Alone(i).raised

\* The walk has counted and attempted every Word file up to file_index, and
\* has returned only after the last file
AllAttempted ==
    /\ pc \in {"summary", "exit"} => file_index = Len(files)
    /\ file_index <= Len(files)
    /\ total_files = Cardinality({i \in 1..file_index : IsWordFile(FileName(i))})
    /\ \A i \in 1..file_index :
           IsWordFile(FileName(i)) =>
               \/ InSeq(DocPath(i, FileName(i)), skipped_files)
               \/ InSeq(<<DocPath(i, FileName(i)),
                          OutputPath(DocPath(i, FileName(i)), Stem(FileName(i)))>>,
                        converted_files)

\* The step of the walk over a file that converts alone leaves what the file
\* yields alone: its Markdown file, its images, its counts and its entry
\* among the successful files, whatever the earlier files left
ConvertedAsAlone ==
    (pc = "walk" /\ file_index' = file_index + 1 /\ ConvertsAlone(file_index'))
        => \E alone \in {Alone(file_index')} :
           LET i == file_index'
               out == OutputPath(DocPath(i, FileName(i)), alone.doc_name)
           IN  /\ out \in DOMAIN md_files'
               /\ md_files'[out] = alone.md[1]
               /\ ImagePaths(DocPath(i, FileName(i)), alone.extract[1].image_files)
                      \subseteq image_files'
               /\ file_image_counts'[alone.doc_name] = alone.extract[1].file_image_count
               /\ successful_files' = Append(successful_files, DocPath(i, FileName(i)))
               /\ converted_files' = Append(converted_files, <<DocPath(i, FileName(i)), out>>)
               /\ failed_files' = failed_files

\* C5: in process_directory no document's failure ends the batch. Every
\* .doc/.docx file the walk found is counted and attempted (it is among the
\* skipped or the converted files), the loop returns only after the last
\* file, and every document that converts on its own is converted to the
\* result it yields alone, whatever failed before it.
C5_BatchSurvivesFailures ==
    /\ [](mode = "directory" => AllAttempted)
    /\ [][mode = "directory" => ConvertedAsAlone]_vars

\* C5's case: a document failed, leaving a truncated Markdown file of the
\* same name, and a later one was converted
C5_Witness ==
    /\ mode = "directory"
    /\ pc = "exit"
    /\ Len(files) = 2
    /\ InSeq(DocPath(1, FileName(1)), skipped_files)
    /\ files[1].write = "write_fails"
    /\ OutputPath(DocPath(2, FileName(2)), Stem(FileName(2)))
           = OutputPath(DocPath(1, FileName(1)), Stem(FileName(1)))
    /\ ConvertsAlone(2)
    /\ md_files["out/in/d1/r.md"] =
           <<"", Fence, "a", Fence, "", "![Image](./images/r_image_1.png)", "">>

\* C11: classifying a paragraph never raises. No step of the paragraph loop
\* ends in an exception, whatever the style and the formatting of the
\* paragraph: the heading check gives 0 and the paragraph is classified.
C11_ClassificationNeverRaises ==
    [][(pc = "paragraphs" /\ n_paragraphs' = n_paragraphs + 1) => pc' = "paragraphs"]_vars

\* The drawings of a run whose reference id is in the image map
Resolved(run) ==
    {d \in 1..Len(run.drawings) :
        /\ run.drawings[d].embed # None
        /\ run.drawings[d].embed[1] \in DOMAIN image_refs}

\* The number of items the claim gives to a run
ClaimedItems(run) ==
    IF Resolved(run) # {} THEN Cardinality(Resolved(run))
    ELSE IF Strip(run.text) # "" THEN 1
    ELSE 0

\* The number of items the claim gives to the first k runs of the paragraph
RECURSIVE ClaimedBefore(_)
ClaimedBefore(k) ==
    IF k = 0 THEN 0 ELSE ClaimedBefore(k - 1) + ClaimedItems(paragraph.runs[k])

\* C12: the content items of a paragraph are those of its runs in run
\* order; a run with a resolved image gives image items only (its text is
\* dropped), a run with text that is not blank and no resolved image gives
\* one text item holding its raw text, any other run gives nothing.
C12_ItemsInRunOrder ==
    n_paragraphs > 0 =>
        /\ Len(paragraph_content) = ClaimedBefore(Len(paragraph.runs))
        /\ \A k \in 1..Len(paragraph.runs) :
               LET run == paragraph.runs[k]
                   first == ClaimedBefore(k - 1) + 1
                   last == ClaimedBefore(k)
               IN  IF Resolved(run) # {}
                   THEN \A j \in first..last : paragraph_content[j].type = "image"
                   ELSE Strip(run.text) # "" =>
                            paragraph_content[first] =
                                [type |-> "text", content |-> run.text]

\* C12's case: a run with a resolved image and text, then a run with text
C12_Witness ==
    /\ TookParagraph
    /\ Len(paragraph.runs) = 2
    /\ Resolved(paragraph.runs[1]) # {}
    /\ paragraph.runs[1].text = " a"
    /\ paragraph.runs[2].drawings = <<>>
    /\ paragraph_content =
           <<[type |-> "image", content |-> "![fig 1](./images/report_image_1.png)"],
             [type |-> "text", content |-> " a"]>>

\* The i-th file is a document the run failed to convert
DocumentFailed(i) ==
    /\ IsWordFile(FileName(i))
    /\ IF mode = "directory" THEN ~ConvertsAlone(i) ELSE Alone(i).raised

\* C13: in both modes main returns a status that is not zero when a
\* document failed to convert or an image failed to be extracted.
C13_FailureGivesNonZeroStatus ==
    (/\ pc = "exit"
     /\ \/ \E i \in 1..Len(files) : DocumentFailed(i)
        \/ failed_images # <<>>)
        => status # None /\ status[1] # 0

\* The step that calls convert_to_markdown on the file it takes
ConversionStep ==
    /\ pc \in {"walk", "main"}
    /\ file_index' = file_index + 1
    /\ IsWordFile(FileName(file_index'))
    /\ mode = "directory" =>
           files[file_index'].opens /\ files[file_index'].header = ZipHeader

\* The conversion of the i-th file fails, and not only for the write of its
\* Markdown file
FailsBeforeWrite(i) ==
    ConvertToMarkdown(DocPath(i, FileName(i)), [files[i] EXCEPT !.write = "ok"]).raised

\* What the step leaves of a failed conversion of the file it takes: one
\* more entry of stats.failed_files, for this path and with a message, and
\* no more entry of stats.successful_files
FailureRecorded ==
    /\ Len(failed_files') = Len(failed_files) + 1
    /\ SubSeq(failed_files', 1, Len(failed_files)) = failed_files
    /\ Last(failed_files')[1] = DocPath(file_index', FileName(file_index'))
    /\ Last(failed_files')[2] # ""
    /\ successful_files' = successful_files

\* C14 as stated: a conversion that fails at any point writes no Markdown
\* file, appends the document to stats.failed_files with a message and does
\* not append it to stats.successful_files.
C14_NoFileOnAnyFailure ==
    [][(ConversionStep /\ Alone(file_index').raised)
           => FailureRecorded /\ md_files' = md_files]_vars

\* C14, amended: a failed conversion is recorded in stats.failed_files with
\* a message and not in stats.successful_files; it writes no Markdown file
\* when it fails before the write of the Markdown file (file missing, empty,
\* unreadable archive, exception while translating) or when the Markdown
\* file cannot be opened.
C14_NoFileOnFailureBeforeWrite ==
    [][(ConversionStep /\ Alone(file_index').raised)
           => /\ FailureRecorded
              /\ (FailsBeforeWrite(file_index') \/ files[file_index'].write # "write_fails")
                     => md_files' = md_files]_vars

\* C14's case: a document failed while its paragraphs were translated, after
\* its images were extracted
C14_Witness ==
    /\ mode = "directory"
    /\ pc = "exit"
    /\ Len(files) = 1
    /\ files[1].document = "ok"
    /\ files[1].paragraphs # <<>>
    /\ files[1].paragraphs[1].style = None
    /\ failed_files = <<<<"in/d1/r.docx", "'NoneType' object has no attribute 'lower'">>>>
    /\ successful_files = <<>>
    /\ md_files = EmptyMap
    /\ total_images = 1

\* The sequence number the claim gives to relationship i: every image
\* relationship with a payload takes the next number, written or not
NumberOf(i) == Cardinality({j \in 1..i : Writes(j)})

\* The references a mapping entry can hold for sequence number n
RefsOfNumber(n) == {"./images/" \o ImageFilename(DocName, n, e) : e \in ImageExtensions}

\* Every attempted extraction has consumed one number, and each image written
\* has the name and the mapping entry of its number
NumbersConsumed ==
    /\ file_image_count = NumberOf(rel_index)
    /\ \A i \in GoodWrites :
           LET name == ImageFilename(DocName, NumberOf(i), ImageExt(rels[i].target_ref))
           IN  /\ image_refs[RelId(i)] = "./images/" \o name
               /\ [name |-> name, n |-> NumberOf(i), complete |-> TRUE] \in image_files
    /\ \A i \in FailedWrites :
           \A id \in DOMAIN image_refs : image_refs[id] \notin RefsOfNumber(NumberOf(i))

\* C15 as stated: a failed write consumes its number; the next image
\* attempted is named with the next number, and no file and no mapping
\* entry exists with the number of the failed write.
C15_FailedWriteLeavesNothing ==
    /\ NumbersConsumed
    /\ \A i \in FailedWrites : \A f \in image_files : f.n # NumberOf(i)

\* C15, amended: a failed write consumes its number; the next image
\* attempted is named with the next number, no mapping entry and no image
\* written in full exists with the number of the failed write, and a
\* truncated file of that number exists exactly when the write failed after
\* the file was opened.
C15_FailedWriteLeavesNoImage ==
    /\ NumbersConsumed
    /\ \A i \in FailedWrites :
           /\ \A f \in image_files : f.n = NumberOf(i) => ~f.complete
           /\ (\E f \in image_files : f.n = NumberOf(i)) <=> rels[i].write = "write_fails"

\* C15's case: the write of image 1 failed at the open, and the next image
\* was written as image 2
C15_Witness ==
    /\ pc = "extract_returned"
    /\ \E i \in FailedWrites : \E j \in GoodWrites :
           /\ rels[i].write = "open_fails"
           /\ NumberOf(i) = 1
           /\ NumberOf(j) = 2
           /\ image_refs[RelId(j)] = "./images/report_image_2.png"
    /\ \A f \in image_files : f.n # 1

\* Relationship i is an image relationship whose payload is empty
EmptyPayload(i) == rels[i].image /\ ~rels[i].external /\ rels[i].blob = ""

\* Three image relationships, the second with an empty payload, whose
\* writes succeed
ThreeWithEmptySecond ==
    /\ Len(rels) = 3
    /\ EmptyPayload(2)
    /\ \A i \in {1, 3} : Writes(i) /\ rels[i].write = "ok"

\* C16: an image relationship with an empty payload is skipped: the step
\* that takes it leaves the counter, the failed-image records, the mapping
\* and the files as they were. Of three image relationships whose second has
\* an empty payload and whose writes succeed, two files are written, with
\* numbers 1 and 2.
C16_EmptyPayloadSkipped ==
    /\ []((pc = "extract_returned" /\ ThreeWithEmptySecond) =>
              /\ Cardinality(image_files) = 2
              /\ {f.n : f \in image_files} = {1, 2}
              /\ \A f \in image_files : f.complete
              /\ DOMAIN image_refs = {RelId(1), RelId(3)}
              /\ file_image_count = 2
              /\ failed_images = <<>>)
    /\ [][(pc = "extract_loop" /\ rel_index' = rel_index + 1 /\ EmptyPayload(rel_index'))
             => /\ UNCHANGED <<file_image_count, failed_images, image_refs, image_files>>
                /\ pc' = "extract_loop"]_vars

\* C16's case: the three relationships, taken to the end
C16_Witness ==
    /\ pc = "extract_returned"
    /\ ThreeWithEmptySecond
    /\ image_refs[RelId(3)] \in RefsOfNumber(2)

\* Paragraph p has no text that is not blank and no resolved image
NoContent(p) ==
    \A k \in 1..Len(p.runs) : Resolved(p.runs[k]) = {} /\ Strip(p.runs[k].text) = ""

\* C17: a paragraph without content items is handled as Empty whatever its
\* style: the step appends one blank line outside a code block, and inside a
\* code block it leaves the lines and in_code_block as they were.
C17_EmptyWhateverStyle ==
    [][(/\ pc = "paragraphs"
        /\ n_paragraphs' = n_paragraphs + 1
        /\ NoContent(doc_paragraphs[n_paragraphs']))
           => /\ pc' = "paragraphs"
              /\ in_code_block' = in_code_block
              /\ md_content' = IF in_code_block THEN md_content
                               ELSE Append(md_content, Line("", 266))]_vars

\* C17's case: a paragraph of a heading style with blank runs only, taken
\* inside a code block
C17_Witness ==
    /\ TookParagraph
    /\ n_paragraphs = 2
    /\ paragraph.style = Some("Heading 7")
    /\ Len(paragraph.runs) = 2
    /\ NoContent(paragraph)
    /\ in_code_block
    /\ Texts(md_content) = <<"", Fence, "a">>

\* The lines of a sequence that are not blank, in order
NonBlank(lines) == SelectSeq(lines, LAMBDA line : ~IsBlank(line))

\* The first n lines of a sequence without every blank line that follows a
\* blank line: of each run of blank lines the first is left, in its place
RECURSIVE RunsCollapsed(_, _)
RunsCollapsed(lines, n) ==
    IF n = 0 THEN <<>>
    ELSE IF IsBlank(lines[n]) /\ n > 1 /\ IsBlank(lines[n - 1])
         THEN RunsCollapsed(lines, n - 1)
         ELSE Append(RunsCollapsed(lines, n - 1), lines[n])

\* C18: the post-pass only removes blank lines. The lines that are not blank
\* are the same before and after, in the same order, and each run of blank
\* lines has become one blank line in the place of the run.
C18_OnlyBlankLinesRemoved ==
    pc = "write" =>
        /\ NonBlank(cleaned_content) = NonBlank(md_content)
        /\ Texts(cleaned_content) = Texts(RunsCollapsed(md_content, Len(md_content)))

\* C18's case: runs of one and of two blank lines between other lines
C18_Witness ==
    /\ pc = "write"
    /\ Texts(md_content) = <<"", "a", "", "">>
    /\ Texts(cleaned_content) = <<"", "a", "">>

\* Line i of md_content is inside a code block: after an opening fence and
\* not after its closing fence
Inside(i) == FenceDepth(SubSeq(md_content, 1, i - 1)) = 1

\* The line of docdown.py that appends the line of a Code paragraph
CodeLineAt == {246}

\* C19: nothing but the lines of Code paragraphs is appended inside a code
\* block. Every line between an opening fence and its closing fence was
\* appended for a Code paragraph, a heading, paragraph, image or blank line
\* is never inside a block, and each Code paragraph appends one line.
C19_OnlyCodeInsideFences ==
    /\ [](\A i \in 1..Len(md_content) :
              Inside(i) => md_content[i].at \in CodeLineAt \cup ClosingFenceAt)
    /\ [][ParagraphStep =>
              Count(md_content', CodeLineAt) =
                  Count(md_content, CodeLineAt) + (IF Kind' = "Code" THEN 1 ELSE 0)]_vars

\* C19's case: a heading after a code block of one line
C19_Witness ==
    /\ TookParagraph
    /\ Kind = "Heading"
    /\ ~in_code_block
    /\ [i \in 1..Len(md_content) |-> md_content[i].at] = <<241, 242, 246, 225, 226, 231>>

\* The paths of the entries of stats.failed_files
FailedPaths == [i \in 1..Len(failed_files) |-> failed_files[i][1]]

\* C20: once process_directory has returned, every file it counted is
\* recorded once, as succeeded or as failed: total_files is the number of
\* successful files plus the number of failed files, no path is in both
\* lists and none is twice in failed_files.
C20_EveryFileRecordedOnce ==
    (mode = "directory" /\ pc \in {"summary", "exit"}) =>
        /\ total_files = Len(successful_files) + Len(failed_files)
        /\ \A i \in 1..Len(successful_files) : ~InSeq(successful_files[i], FailedPaths)
        /\ \A i, j \in 1..Len(failed_files) : FailedPaths[i] = FailedPaths[j] => i = j

====
